---- MODULE Spec2Model ----
(***************************************************************************)
(* CObot+ face-recognition attendance server                               *)
(* (src/raspberry-pi/app_optimized.py): the schedule window resolver and   *)
(* its cache, the attendance writer with its in-memory dedup set, the      *)
(* class-session get-or-create, the camera capture loop, the stream        *)
(* generators and the bounded face queue.                                  *)
(*                                                                         *)
(* Storage (Supabase) is modelled as sets of rows.  A table whose rows     *)
(* carry a client-built "id" rejects an insert of an id that is already    *)
(* present (primary key); every storage call may also raise, which is an   *)
(* input ("fail") of the calling operation.                                *)
(***************************************************************************)
EXTENDS Integers, Sequences, FiniteSets, TLC

\* ------------------------------------------------------------------ bounds
MaxDay == 1            \* days the clock runs over (day 0 is a Monday)
MaxFrames == 2         \* frames the camera delivers
MaxStreams == 2        \* concurrent generate_frames() generators
MaxCallers == 2        \* concurrent get_or_create_class_session callers
MaxReaders == 2        \* concurrent callers of the window cache
MaxRefreshes == 3      \* window refreshes started
MaxStreak == 7         \* cap of the failed-attempt history counter

\* ------------------------------------------------------- program constants
EARLY_WINDOW_MINUTES == 15
LATE_GRACE_MINUTES == 15
END_BUFFER_MINUTES == 15
WINDOW_CHECK_INTERVAL == 30
PROCESS_EVERY_N_FRAMES == 5
MAX_CAMERA_RETRIES == 5
QueueMaxsize == 3

\* Python's None (a record, so that it compares with the dicts it stands in for)
None == [none |-> TRUE]

\* ----------------------------------------------------------- reference data
\* known_face_names: the matric numbers the matcher can return.
Persons == {"A100", "A200"}
Sections == {"S1"}

\* students table (id, matric_no)
students == {[id |-> "st1", matric_no |-> "A100"],
             [id |-> "st2", matric_no |-> "A200"]}

\* Mutant of student_section_enrollments: st2 is enrolled in S1 as well.
EnrollmentsWithSt2InS1 ==
  {[student_id |-> "st1", section_id |-> "S1"],
   [student_id |-> "st2", section_id |-> "S1"]}

\* student_section_enrollments table (student_id, section_id)
\* (A200 is a student who is enrolled in no section of the schedule)
student_section_enrollments == {[student_id |-> "st1", section_id |-> "S1"],
                                [student_id |-> "st2", section_id |-> "S9"]}

\* section_schedules joined with sections(course_id, name), in table order.
\* Times are the "HH:MM:SS" strings of the table, kept as their fields.
section_schedules ==
  << [section_id |-> "S1", day_of_week |-> "Monday",
      start_time |-> <<8, 0, 0>>, end_time |-> <<9, 30, 0>>,
      sections |-> [course_id |-> "C1", name |-> "Sec1"]],
     [section_id |-> "S1", day_of_week |-> "Tuesday",
      start_time |-> <<8, 0>>, end_time |-> <<9, 30>>,     \* "HH:MM" form
      sections |-> [course_id |-> "C1", name |-> "Sec1"]] >>

\* ------------------------------------------------------------------- clock
\* "now" counts seconds of local time from midnight of day 0.  The clock
\* visits these seconds of each day: 07:50 (window open, on time; the UTC
\* day is still the day before), 08:20 (late), 09:20 (window closed).
SecondsPerDay == 86400
Instants == {28200, 30000, 33600}

\* Local time is ahead of UTC by this many seconds (datetime.utcnow() against
\* date.today() / datetime.now()).
UtcOffsetSeconds == 28800

WeekDays == <<"Monday", "Tuesday", "Wednesday", "Thursday",
              "Friday", "Saturday", "Sunday">>

\* datetime.date.today().isoformat(): the local calendar day
Today(t) == t \div SecondsPerDay
\* datetime.datetime.utcnow().date().isoformat(): the UTC calendar day
UtcToday(t) == (t - UtcOffsetSeconds) \div SecondsPerDay
\* current_datetime.strftime("%A")
DayName(t) == WeekDays[(Today(t) % 7) + 1]
\* datetime.datetime.now().time() as (hour, minute)
CurrentTime(t) == [hour |-> (t % SecondsPerDay) \div 3600,
                   minute |-> ((t % SecondsPerDay) % 3600) \div 60]

VARIABLES
  now,                        \* time.time() / datetime.now()
  supabase,                   \* TRUE iff the storage client was created
  class_sessions,             \* storage table
  attendance_records,         \* storage table
  student_course_attendance,  \* storage table
  current_attendance_window,  \* global: the cached window or None
  last_window_check,          \* global: time of the last refresh
  attendance_logged_today,    \* global dict: section_id -> set of matric_no
  student_cache,              \* lru_cache of get_student_cached
  w_pc,                       \* face_recognition_worker: position
  w_window,                   \* face_recognition_worker: local "window"
  last_call,                  \* history: the last log_attendance call that wrote
  shutdown_event,             \* global: threading.Event
  latest_frame,               \* global: the published frame or None
  camera,                     \* global: the cv2.VideoCapture object's state
  c_pc,                       \* capture_frames: position
  retry_count,                \* capture_frames: local retry_count
  fail_streak,                \* history: failed attempts since the last good read
  good_reads,                 \* history: good reads since the last open (capped)
  captured,                   \* history: frames the camera has delivered
  h_pc,                       \* signal_handler: position
  face_queue,                 \* global: queue.Queue(maxsize=3)
  frame_counter,              \* global, kept modulo PROCESS_EVERY_N_FRAMES
  is_streaming,               \* global
  g_pc,                       \* generate_frames, per generator: position
  g_frame,                    \* generate_frames: local "frame"
  g_window,                   \* generate_frames: local "window"
  g_tmp,                      \* generate_frames: frame_counter as loaded by +=
  g_put,                      \* history: how the generator's last enqueue ended
  s_pc,                       \* get_or_create_class_session callers: position
  s_today,                    \* get_or_create_class_session: local "today"
  s_ret,                      \* get_or_create_class_session: value returned
  s_out,                      \* history: how the caller's call ended
  r_sched,                    \* resolver input: the section_schedules rows
  r_day,                      \* resolver input: current_day
  r_minutes,                  \* resolver input: current_minutes
  r_pc,                       \* resolver: "call" before, "done" after
  r_out,                      \* resolver: the window returned or None
  k_pc,                       \* get_current_attendance_window callers: position
  k_now,                      \* get_current_attendance_window: local "now"
  k_ret,                      \* get_current_attendance_window: value returned
  k_starts                    \* history: the "now" of each refresh started

timeVars == <<now>>
storeVars == <<class_sessions, attendance_records, student_course_attendance>>
cacheVars == <<current_attendance_window, last_window_check>>
memVars == <<attendance_logged_today, student_cache>>
workerVars == <<w_pc, w_window>>
camVars == <<latest_frame, camera, c_pc, retry_count, fail_streak, good_reads,
             captured>>
sigVars == <<shutdown_event, h_pc>>
genVars == <<frame_counter, is_streaming, g_pc, g_frame, g_window, g_tmp,
             g_put>>
pipeVars == <<camVars, sigVars, genVars, face_queue>>
callerVars == <<s_pc, s_today, s_ret, s_out>>
resolverVars == <<r_sched, r_day, r_minutes, r_pc, r_out>>
readerVars == <<k_pc, k_now, k_ret, k_starts>>

vars == <<now, supabase, class_sessions, attendance_records,
          student_course_attendance, current_attendance_window,
          last_window_check, attendance_logged_today, student_cache,
          w_pc, w_window, last_call, shutdown_event, latest_frame, camera,
          c_pc, retry_count, fail_streak, good_reads, captured, h_pc,
          face_queue, frame_counter, is_streaming, g_pc, g_frame, g_window,
          g_tmp, g_put, s_pc, s_today, s_ret, s_out, r_sched, r_day,
          r_minutes, r_pc, r_out, k_pc, k_now, k_ret, k_starts>>

\* ------------------------------------------------------------ time helpers
\* Mutant of time_to_minutes: the minutes of the hour are dropped.
TimeToMinutesHoursOnly(t) == t.hour * 60

time_to_minutes(t) == t.hour * 60 + t.minute

parse_time_string(time_str) ==
  [hour |-> time_str[1], minute |-> time_str[2],
   second |-> IF Len(time_str) > 2 THEN time_str[3] ELSE 0]

\* f"{m // 60:02d}:{m % 60:02d}"
FormatMinutes(m) == <<m \div 60, m % 60>>

\* ------------------------------------------------- schedule window resolver
\* .eq("day_of_week", current_day): the rows of the day, in table order
RECURSIVE SelectDay(_, _)
SelectDay(rows, day) ==
  IF rows = <<>> THEN <<>>
  ELSE IF Head(rows).day_of_week = day
       THEN <<Head(rows)>> \o SelectDay(Tail(rows), day)
       ELSE SelectDay(Tail(rows), day)

\* Mutant of MakeWindow: the minute of the late cutoff is already late.
MakeWindowLateAtCutoff(schedule, current_minutes) ==
  LET start_minutes == time_to_minutes(parse_time_string(schedule.start_time))
      end_minutes == time_to_minutes(parse_time_string(schedule.end_time))
      window_start == start_minutes - EARLY_WINDOW_MINUTES
      late_cutoff == start_minutes + LATE_GRACE_MINUTES
      window_end == end_minutes - END_BUFFER_MINUTES
      is_late == current_minutes >= late_cutoff
  IN [section_id |-> schedule.section_id,
      course_id |-> schedule.sections.course_id,
      section_name |-> schedule.sections.name,
      start_time |-> schedule.start_time,
      end_time |-> schedule.end_time,
      is_late |-> is_late,
      window_start |-> FormatMinutes(window_start),
      late_cutoff |-> FormatMinutes(late_cutoff),
      window_end |-> FormatMinutes(window_end),
      status |-> IF is_late THEN "late" ELSE "present"]

\* The window dict built for a matching schedule row.
MakeWindow(schedule, current_minutes) ==
  LET start_minutes == time_to_minutes(parse_time_string(schedule.start_time))
      end_minutes == time_to_minutes(parse_time_string(schedule.end_time))
      window_start == start_minutes - EARLY_WINDOW_MINUTES
      late_cutoff == start_minutes + LATE_GRACE_MINUTES
      window_end == end_minutes - END_BUFFER_MINUTES
      is_late == current_minutes > late_cutoff
  IN [section_id |-> schedule.section_id,
      course_id |-> schedule.sections.course_id,
      section_name |-> schedule.sections.name,
      start_time |-> schedule.start_time,
      end_time |-> schedule.end_time,
      is_late |-> is_late,
      window_start |-> FormatMinutes(window_start),
      late_cutoff |-> FormatMinutes(late_cutoff),
      window_end |-> FormatMinutes(window_end),
      status |-> IF is_late THEN "late" ELSE "present"]

\* Mutant of InWindow: the minute the window opens is outside it.
InWindowOpenExcluded(schedule, current_minutes) ==
  LET start_minutes == time_to_minutes(parse_time_string(schedule.start_time))
      end_minutes == time_to_minutes(parse_time_string(schedule.end_time))
      window_start == start_minutes - EARLY_WINDOW_MINUTES
      window_end == end_minutes - END_BUFFER_MINUTES
  IN window_start < current_minutes /\ current_minutes <= window_end

InWindow(schedule, current_minutes) ==
  LET start_minutes == time_to_minutes(parse_time_string(schedule.start_time))
      end_minutes == time_to_minutes(parse_time_string(schedule.end_time))
      window_start == start_minutes - EARLY_WINDOW_MINUTES
      window_end == end_minutes - END_BUFFER_MINUTES
  IN window_start <= current_minutes /\ current_minutes <= window_end

\* The for loop over query.data: the first row whose window holds the
\* current minute, or None.
RECURSIVE Resolve(_, _)
Resolve(rows, current_minutes) ==
  IF rows = <<>> THEN None
  ELSE IF InWindow(Head(rows), current_minutes)
       THEN MakeWindow(Head(rows), current_minutes)
       ELSE Resolve(Tail(rows), current_minutes)

\* ------------------------------------------------------------ window cache
\* Mutant of get_current_attendance_window: a refresh that fails keeps the
\* cached window.
GetWindowKeepingOnFailure(t, caw, lwc, sb, fetch_fails) ==
  IF t - lwc < WINDOW_CHECK_INTERVAL
  THEN [ret |-> caw, caw |-> caw, lwc |-> lwc]
  ELSE IF ~sb \/ fetch_fails
       THEN [ret |-> caw, caw |-> caw, lwc |-> t]
       ELSE LET data == SelectDay(section_schedules, DayName(t))
                w == Resolve(data, time_to_minutes(CurrentTime(t)))
            IN [ret |-> w, caw |-> w, lwc |-> t]

\* get_current_attendance_window(): the value returned and the two globals
\* after the call.  fetch_fails: the schedule query raises.
get_current_attendance_window(t, caw, lwc, sb, fetch_fails) ==
  IF t - lwc < WINDOW_CHECK_INTERVAL
  THEN [ret |-> caw, caw |-> caw, lwc |-> lwc]
  ELSE IF ~sb
       THEN [ret |-> None, caw |-> None, lwc |-> t]
       ELSE IF fetch_fails
            THEN [ret |-> None, caw |-> None, lwc |-> t]
            ELSE LET data == SelectDay(section_schedules, DayName(t))
                     w == Resolve(data, time_to_minutes(CurrentTime(t)))
                 IN [ret |-> w, caw |-> w, lwc |-> t]

\* ----------------------------------------------------------------- storage
\* insert(row).execute() on a table with a client-built id: accepted iff no
\* row has that id.
InsertAccepted(table, row) == \A r \in table : r.id # row.id

\* class_sessions .eq("section_id", ..).eq("class_date", ..)
SelectSessions(table, section_id, today) ==
  {r \in table : r.section_id = section_id /\ r.class_date = today}

\* attendance_records .eq("student_id", ..).eq("class_session_id", ..)
SelectAttendance(table, student_id, class_session_id) ==
  {r \in table : r.student_id = student_id
                 /\ r.class_session_id = class_session_id}

\* Mutant of SelectCourseAttendance: the query finds no row.
SelectCourseAttendanceNone(table, student_id, course_id) == {}

\* student_course_attendance .eq("student_id", ..).eq("course_id", ..)
SelectCourseAttendance(table, student_id, course_id) ==
  {r \in table : r.student_id = student_id /\ r.course_id = course_id}

\* res.data[0]
First(data) == CHOOSE r \in data : TRUE

\* The points of log_attendance at which a storage call can raise.
FailPoints == {"none", "student", "enroll", "session_query", "session_insert",
               "existing", "insert", "sca_query", "sca_insert"}

\* ------------------------------------------------------ get_student_cached
\* The body of get_student_cached: the students row of the matric number, or
\* None when there is none, the client is missing or the query raises.
StudentLookup(matric_no, sb, fail) ==
  IF ~sb THEN None
  ELSE IF fail = "student" THEN None
  ELSE LET data == {r \in students : r.matric_no = matric_no}
       IN IF data # {} THEN First(data) ELSE None

\* @lru_cache: a value computed once for an argument is returned for it until
\* cache_clear().  [val, cache]: the value returned and the cache afterwards.
get_student_cached(cache, matric_no, sb, fail) ==
  IF matric_no \in DOMAIN cache
  THEN [val |-> cache[matric_no], cache |-> cache]
  ELSE LET v == StudentLookup(matric_no, sb, fail)
       IN [val |-> v, cache |-> (matric_no :> v) @@ cache]

\* ---------------------------------------------- get_or_create_class_session
SessionId(section_id, today) ==
  [kind |-> "session", section_id |-> section_id, date |-> today]

SessionRow(section_id, today) ==
  [id |-> SessionId(section_id, today), section_id |-> section_id,
   class_date |-> today, status |-> "active"]

\* Mutant of get_or_create_class_session: the existence query is skipped and
\* the row is always inserted.
GetOrCreateInsertOnly(table, section_id, t, sb, fail) ==
  LET row == SessionRow(section_id, Today(t))
  IN IF ~sb \/ fail = "session_insert" \/ ~InsertAccepted(table, row)
     THEN [id |-> None, table |-> table]
     ELSE [id |-> row.id, table |-> table \cup {row}]

\* [id, table]: the identifier returned (None on failure) and the table after.
get_or_create_class_session(table, section_id, t, sb, fail) ==
  IF ~sb THEN [id |-> None, table |-> table]
  ELSE IF fail = "session_query" THEN [id |-> None, table |-> table]
  ELSE LET today == Today(t)
           data == SelectSessions(table, section_id, today)
           row == SessionRow(section_id, today)
       IN IF data # {} THEN [id |-> First(data).id, table |-> table]
          ELSE IF fail = "session_insert" \/ ~InsertAccepted(table, row)
               THEN [id |-> None, table |-> table]
               ELSE [id |-> row.id, table |-> table \cup {row}]

\* ------------------------------------------------------------ log_attendance
\* What a call leaves behind: the value returned, the three tables, the dedup
\* dict and the lookup cache; "path" names the return statement taken.
Out(ret, path, sessions, records, sca, logged, cache) ==
  [ret |-> ret, path |-> path, sessions |-> sessions, records |-> records,
   sca |-> sca, logged |-> logged, cache |-> cache]

AttendanceId(student_id, class_session_id, today_date) ==
  [kind |-> "att", student_id |-> student_id,
   class_session_id |-> class_session_id, date |-> today_date]

\* Mutant of ExistingAttendance: the storage check for an existing record
\* finds nothing.
ExistingAttendanceNone(records, student_id, class_session_id) == {}

\* attendance_records .eq("student_id", ..).eq("class_session_id", ..).limit(1)
ExistingAttendance(records, student_id, class_session_id) ==
  SelectAttendance(records, student_id, class_session_id)

\* Mutant of DedupAdd: the person is not added to the section's set.
DedupAddNothing(logged, section_id, student_matric) == logged

\* attendance_logged_today[section_id].add(student_matric)
DedupAdd(logged, section_id, student_matric) ==
  [logged EXCEPT ![section_id] = @ \cup {student_matric}]

\* log_attendance(student_matric) run to its return with the globals as
\* given: window is current_attendance_window, t the clock, fail the storage
\* call that raises (if it is reached).  The record's timestamp column is left
\* out of the row.
log_attendance(student_matric, fail, window, sb, t, sessions, records, sca, logged, cache) ==
  IF window = None \/ ~sb
  THEN Out(FALSE, "no_window", sessions, records, sca, logged, cache)
  ELSE
  LET section_id == window.section_id
      logged1 == IF section_id \in DOMAIN logged THEN logged
                 ELSE (section_id :> {}) @@ logged
  IN
  IF student_matric \in logged1[section_id]
  THEN Out(FALSE, "dedup", sessions, records, sca, logged1, cache)
  ELSE
  LET sl == get_student_cached(cache, student_matric, sb, fail)
      student == sl.val
  IN
  IF student = None
  THEN Out(FALSE, "no_student", sessions, records, sca, logged1, sl.cache)
  ELSE
  LET student_id == student.id
      course_id == window.course_id
      enroll_check == {r \in student_section_enrollments :
                         r.student_id = student_id /\ r.section_id = section_id}
  IN
  IF fail = "enroll"
  THEN Out(FALSE, "error", sessions, records, sca, logged1, sl.cache)
  ELSE IF enroll_check = {}
  THEN Out(FALSE, "not_enrolled", sessions, records, sca, logged1, sl.cache)
  ELSE
  LET gs == get_or_create_class_session(sessions, section_id, t, sb, fail)
      class_session_id == gs.id
  IN
  IF class_session_id = None
  THEN Out(FALSE, "no_session", gs.table, records, sca, logged1, sl.cache)
  ELSE IF fail = "existing"
  THEN Out(FALSE, "error", gs.table, records, sca, logged1, sl.cache)
  ELSE
  LET existing == ExistingAttendance(records, student_id, class_session_id)
      payload == [id |-> AttendanceId(student_id, class_session_id, UtcToday(t)),
                  student_id |-> student_id,
                  class_session_id |-> class_session_id,
                  status |-> window.status]
      records1 == records \cup {payload}
      course_attendance_res == SelectCourseAttendance(sca, student_id, course_id)
      sca_row == [id |-> Cardinality(sca) + 1, student_id |-> student_id,
                  course_id |-> course_id, absence_count |-> 0]
  IN
  IF existing # {}
  THEN Out(FALSE, "existing", gs.table, records, sca,
           DedupAdd(logged1, section_id, student_matric), sl.cache)
  ELSE IF fail = "insert" \/ ~InsertAccepted(records, payload)
  THEN Out(FALSE, "error", gs.table, records, sca, logged1, sl.cache)
  ELSE IF fail = "sca_query"
  THEN Out(FALSE, "error", gs.table, records1, sca, logged1, sl.cache)
  ELSE IF course_attendance_res = {} /\ fail = "sca_insert"
  THEN Out(FALSE, "error", gs.table, records1, sca, logged1, sl.cache)
  ELSE Out(TRUE, "written", gs.table, records1,
           IF course_attendance_res = {} THEN sca \cup {sca_row} ELSE sca,
           DedupAdd(logged1, section_id, student_matric), sl.cache)

\* ------------------------------------------------- face_recognition_worker

\* last_call: the person and section of the last log_attendance call if it
\* returned True, NoCall after any other call.
NoCall == [matric |-> "-", section_id |-> "-"]

\* face_queue.get(timeout=1) hands the worker a frame.  The queue itself is
\* left out here: some generator has put the frame, the worker has taken it.
FrameReady ==
  /\ w_pc = "get"
  /\ w_pc' = "window"
  /\ UNCHANGED <<timeVars, supabase, storeVars, cacheVars, memVars, w_window,
                 last_call>>
  /\ UNCHANGED <<pipeVars, callerVars, resolverVars, readerVars>>

\* The worker has taken a frame off the queue: it asks the window cache for
\* the window (once for the frame) and the matcher for the faces.
WorkerWindow(fetch_fails) ==
  /\ w_pc = "window"
  /\ LET g == get_current_attendance_window(now, current_attendance_window,
                                            last_window_check, supabase,
                                            fetch_fails)
     IN /\ current_attendance_window' = g.caw
        /\ last_window_check' = g.lwc
        /\ w_window' = g.ret
  /\ w_pc' = "faces"
  /\ UNCHANGED <<timeVars, supabase, storeVars, memVars, last_call>>
  /\ UNCHANGED <<pipeVars, callerVars, resolverVars, readerVars>>

\* One turn of the loop over the faces of the frame, for a face the matcher
\* gives the name of (a face left "Unknown" causes no call): log_attendance(name)
\* while the worker's window is set.
WorkerLog(name, fail) ==
  /\ w_pc = "faces"
  /\ IF w_window # None
     THEN LET o == log_attendance(name, fail, current_attendance_window,
                                  supabase, now, class_sessions,
                                  attendance_records,
                                  student_course_attendance,
                                  attendance_logged_today, student_cache)
          IN /\ class_sessions' = o.sessions
             /\ attendance_records' = o.records
             /\ student_course_attendance' = o.sca
             /\ attendance_logged_today' = o.logged
             /\ student_cache' = o.cache
             /\ last_call' = IF o.ret
                             THEN [matric |-> name,
                                   section_id |->
                                     current_attendance_window.section_id]
                             ELSE NoCall
     ELSE UNCHANGED <<storeVars, memVars, last_call>>
  /\ UNCHANGED <<timeVars, supabase, cacheVars, w_pc, w_window>>
  /\ UNCHANGED <<pipeVars, callerVars, resolverVars, readerVars>>

\* The faces of the frame are done (detected_faces is published); back to
\* the queue.
WorkerDone ==
  /\ w_pc = "faces"
  /\ w_pc' = "get"
  /\ w_window' = None
  /\ UNCHANGED <<timeVars, supabase, storeVars, cacheVars, memVars, last_call>>
  /\ UNCHANGED <<pipeVars, callerVars, resolverVars, readerVars>>

\* Mutant of WorkerError: the exception ends the worker thread.
WorkerErrorEndsThread ==
  /\ w_pc \in {"window", "faces"}
  /\ w_pc' = "exit"
  /\ w_window' = None
  /\ UNCHANGED <<timeVars, supabase, storeVars, cacheVars, memVars, last_call>>
  /\ UNCHANGED <<pipeVars, callerVars, resolverVars, readerVars>>

\* A call of the cycle raises after the frame was taken (cv2.resize or
\* cv2.cvtColor on a malformed frame, the face_recognition calls): control
\* passes to "except Exception as e", the rest of the cycle is skipped.
WorkerError ==
  /\ w_pc \in {"window", "faces"}
  /\ w_pc' = "caught"
  /\ w_window' = None
  /\ UNCHANGED <<timeVars, supabase, storeVars, cacheVars, memVars, last_call>>
  /\ UNCHANGED <<pipeVars, callerVars, resolverVars, readerVars>>

\* print(f"[ERROR] Face recognition: {e}"), then the top of the loop.
WorkerResume ==
  /\ w_pc = "caught"
  /\ w_pc' = "get"
  /\ UNCHANGED w_window
  /\ UNCHANGED <<timeVars, supabase, storeVars, cacheVars, memVars, last_call>>
  /\ UNCHANGED <<pipeVars, callerVars, resolverVars, readerVars>>

\* ---------------------------------------------------------- other threads
\* A stream generator or a status route calls get_current_attendance_window().
ReaderWindow(fetch_fails) ==
  /\ LET g == get_current_attendance_window(now, current_attendance_window,
                                            last_window_check, supabase,
                                            fetch_fails)
     IN /\ current_attendance_window' = g.caw
        /\ last_window_check' = g.lwc
  /\ UNCHANGED <<timeVars, supabase, storeVars, memVars, workerVars, last_call>>
  /\ UNCHANGED <<pipeVars, callerVars, resolverVars, readerVars>>

\* /api/reconnect: load_faces() (the same files) and cache_clear().
Reconnect ==
  /\ student_cache' = <<>>
  /\ UNCHANGED <<timeVars, supabase, storeVars, cacheVars,
                 attendance_logged_today, workerVars, last_call>>
  /\ UNCHANGED <<pipeVars, callerVars, resolverVars, readerVars>>

\* ------------------------------------------------------------ environment
Streams == 1..MaxStreams
Readers == 1..MaxReaders
Callers == 1..MaxCallers

AllInstants == {d * SecondsPerDay + i : d \in 0..MaxDay, i \in Instants}

\* Time passes.
Advance ==
  /\ \E t \in AllInstants : t > now /\ now' = t
  /\ UNCHANGED <<supabase, storeVars, cacheVars, memVars, workerVars, last_call>>
  /\ UNCHANGED <<pipeVars, callerVars, resolverVars, readerVars>>

\* The process is restarted: the module globals are initialised again, the
\* tables stay.
Restart ==
  /\ current_attendance_window' = None
  /\ last_window_check' = 0
  /\ attendance_logged_today' = <<>>
  /\ student_cache' = <<>>
  /\ w_pc' = "get"
  /\ w_window' = None
  /\ last_call' = NoCall
  /\ UNCHANGED <<timeVars, supabase, storeVars>>
  /\ UNCHANGED <<pipeVars, callerVars, resolverVars, readerVars>>

\* The globals as the module leaves them when it is loaded, the threads at
\* their starts.
InitProgram ==
  /\ now \in Instants
  /\ supabase \in BOOLEAN
  /\ class_sessions = {}
  /\ attendance_records = {}
  /\ student_course_attendance = {}
  /\ current_attendance_window = None
  /\ last_window_check = 0
  /\ attendance_logged_today = <<>>
  /\ student_cache = <<>>
  /\ w_pc = "get"
  /\ w_window = None
  /\ last_call = NoCall
  /\ shutdown_event = FALSE
  /\ latest_frame = None
  /\ camera = "none"
  /\ c_pc = "loop"
  /\ retry_count = 0
  /\ fail_streak = 0
  /\ good_reads = 0
  /\ captured = 0
  /\ h_pc = "idle"
  /\ face_queue = <<>>
  /\ frame_counter = 0
  /\ is_streaming = TRUE
  /\ g_pc = [i \in Streams |-> "top"]
  /\ g_frame = [i \in Streams |-> None]
  /\ g_window = [i \in Streams |-> None]
  /\ g_tmp = [i \in Streams |-> 0]
  /\ g_put = [i \in Streams |-> "-"]
  /\ s_pc = [c \in Callers |-> "idle"]
  /\ s_today = [c \in Callers |-> 0]
  /\ s_ret = [c \in Callers |-> None]
  /\ s_out = [c \in Callers |-> "-"]

\* No resolver call and no window-cache caller under way.
ResolverIdle ==
  /\ r_sched = <<>>
  /\ r_day = "Monday"
  /\ r_minutes = 0
  /\ r_pc = "done"
  /\ r_out = None

ReadersIdle ==
  /\ k_pc = [r \in Readers |-> "idle"]
  /\ k_now = [r \in Readers |-> 0]
  /\ k_ret = [r \in Readers |-> None]
  /\ k_starts = <<>>

Init == InitProgram /\ ResolverIdle /\ ReadersIdle

Next ==
  \/ FrameReady
  \/ \E ff \in BOOLEAN : WorkerWindow(ff)
  \/ \E name \in Persons, fail \in FailPoints : WorkerLog(name, fail)
  \/ WorkerDone
  \/ WorkerError
  \/ WorkerResume
  \/ \E ff \in BOOLEAN : ReaderWindow(ff)
  \/ Reconnect
  \/ Advance
  \/ Restart

Spec == Init /\ [][Next]_vars

\* ======================================================= attendance writer
\* A step of the worker inside the loop over the faces of a frame, with the
\* worker's window set: a call of log_attendance.
LogStep ==
  /\ w_pc = "faces" /\ w_window # None
  /\ UNCHANGED <<timeVars, supabase, cacheVars, workerVars>>

\* A step in which the worker calls log_attendance(name).
IsLogCall(name) ==
  /\ LogStep
  /\ \E fail \in FailPoints : WorkerLog(name, fail)

RecordsOf(student_id, class_session_id) ==
  {r \in attendance_records : r.student_id = student_id
                              /\ r.class_session_id = class_session_id}

StudentIdOf(matric_no) == First({r \in students : r.matric_no = matric_no}).id

AtMostOneRecord ==
  \A r1, r2 \in attendance_records :
    (r1.student_id = r2.student_id
     /\ r1.class_session_id = r2.class_session_id) => r1 = r2

\* C1: storage never holds two attendance records of one (class session,
\* person), whatever sequence of recognition cycles, window changes, clock
\* advances and restarts has run, and no step removes or changes a record
\* once it is stored.
C1_OneRecordPerSessionPerson ==
  /\ []AtMostOneRecord
  /\ [][attendance_records \subseteq attendance_records']_vars

\* C1 witness: the person has a record in Monday's and in Tuesday's session
\* (the second needs a restart in between), is in the dedup set, and a further
\* call after the last write was turned away.
C1_Witness ==
  /\ Cardinality(attendance_records) = 2
  /\ Today(now) = 1
  /\ "S1" \in DOMAIN attendance_logged_today
  /\ "A100" \in attendance_logged_today["S1"]
  /\ last_call = NoCall

\* C2: a call that returns True has inserted the person's record and put the
\* person in the section's dedup set; the next call for the same person and
\* the same section's window returns False and inserts nothing; and a call for
\* an enrolled, resolvable person with no record yet, an active window and
\* working storage returns True.
C2_WrittenThenDuplicateSkipped ==
  [][LogStep =>
      LET w == current_attendance_window
      IN /\ ((/\ last_call' # NoCall
               /\ (last_call' # last_call
                   \/ attendance_records' # attendance_records)) =>
               LET name == last_call'.matric
               IN /\ w # None /\ last_call'.section_id = w.section_id
                  /\ name \in attendance_logged_today'[w.section_id]
                  /\ Cardinality(attendance_records') =
                       Cardinality(attendance_records) + 1
                  /\ \E r \in attendance_records' \ attendance_records :
                       /\ r.student_id = StudentIdOf(name)
                       /\ r.class_session_id =
                            SessionId(w.section_id, Today(now)))
         /\ ((/\ last_call # NoCall
              /\ w # None
              /\ last_call.section_id = w.section_id
              /\ IsLogCall(last_call.matric))
             => /\ last_call' = NoCall
                /\ UNCHANGED storeVars)
         /\ \A name \in Persons :
              (/\ supabase /\ w # None
               /\ [student_id |-> StudentIdOf(name),
                   section_id |-> w.section_id]
                    \in student_section_enrollments
               /\ (name \in DOMAIN student_cache
                     => student_cache[name] # None)
               /\ ~(w.section_id \in DOMAIN attendance_logged_today
                    /\ name \in attendance_logged_today[w.section_id])
               /\ RecordsOf(StudentIdOf(name),
                            SessionId(w.section_id, Today(now))) = {}
               /\ WorkerLog(name, "none"))
              => last_call' = [matric |-> name, section_id |-> w.section_id]
    ]_vars

\* C2 witness: the call after a call that returned True, for the same person
\* and section, has just been turned away: the person's only record is in
\* storage, the person is in the dedup set, the worker is still on the frame.
C2_Witness ==
  /\ w_pc = "faces" /\ w_window # None
  /\ last_call = NoCall
  /\ current_attendance_window # None
  /\ "S1" \in DOMAIN attendance_logged_today
  /\ "A100" \in attendance_logged_today["S1"]
  /\ Cardinality(RecordsOf("st1", SessionId("S1", Today(now)))) = 1

\* C3 (as claimed): whenever section S has an active window today, person P
\* (enrolled, resolvable) has a record in a session of S of an earlier day and
\* none in today's, a call of log_attendance for P with working storage
\* returns True, i.e. writes today's record.
C3_DedupResetOnDayRollover ==
  \A p \in Persons :
    LET w == current_attendance_window
    IN (/\ supabase /\ w # None
        /\ Today(last_window_check) = Today(now)
        /\ [student_id |-> StudentIdOf(p), section_id |-> w.section_id]
             \in student_section_enrollments
        /\ (p \in DOMAIN student_cache => student_cache[p] # None)
        /\ \E r \in attendance_records :
             /\ r.student_id = StudentIdOf(p)
             /\ r.class_session_id.section_id = w.section_id
             /\ r.class_session_id.date < Today(now)
        /\ RecordsOf(StudentIdOf(p), SessionId(w.section_id, Today(now))) = {})
       => log_attendance(p, "none", w, supabase, now, class_sessions,
                         attendance_records, student_course_attendance,
                         attendance_logged_today, student_cache).ret

\* ============================================================ window cache
\* A call of get_current_attendance_window that has to refresh.
RefreshDue == now - last_window_check >= WINDOW_CHECK_INTERVAL

\* C6 (as claimed): a refresh that fails leaves the cached window as it was
\* and the call returns that last known window.
C6_FailedRefreshKeepsWindow ==
  [][(RefreshDue /\ supabase) =>
       /\ (ReaderWindow(TRUE) =>
             current_attendance_window' = current_attendance_window)
       /\ (WorkerWindow(TRUE) =>
             /\ current_attendance_window' = current_attendance_window
             /\ w_window' = current_attendance_window)
    ]_vars

\* C6 (amended): a refresh that fails does not raise; it advances the refresh
\* time, sets the cached window to None and returns None, and every call
\* inside the following interval returns None without a refresh.
C6_FailedRefreshClearsWindow ==
  [][/\ (RefreshDue =>
           /\ (ReaderWindow(TRUE) =>
                 /\ current_attendance_window' = None
                 /\ last_window_check' = now)
           /\ (WorkerWindow(TRUE) =>
                 /\ current_attendance_window' = None
                 /\ last_window_check' = now
                 /\ w_window' = None /\ w_pc' = "faces"))
     /\ ((~RefreshDue /\ current_attendance_window = None) =>
           \A ff \in BOOLEAN :
             WorkerWindow(ff) =>
               /\ w_window' = None
               /\ UNCHANGED cacheVars)
    ]_vars

\* C6 witness: the worker was served the active window of the minute, then a
\* refresh by another caller failed: the cache holds None, freshly stamped,
\* although the schedule has a window open now.
C6_Witness ==
  /\ supabase
  /\ w_pc = "faces" /\ w_window # None
  /\ current_attendance_window = None
  /\ last_window_check = now
  /\ Resolve(SelectDay(section_schedules, DayName(now)),
             time_to_minutes(CurrentTime(now))) # None

\* ============================================================ capture_frames
\* A frame the camera delivers: the k-th one.
Frame(k) == [frame |-> k]

coreVars == <<timeVars, supabase, storeVars, cacheVars, memVars, workerVars,
              last_call>>

Min(a, b) == IF a < b THEN a ELSE b

\* retry_count = 0 after "[OK] Camera started."
RetryAfterOpen(rc) == 0

\* while not shutdown_event.is_set() and retry_count < MAX_CAMERA_RETRIES
CapLoop ==
  /\ c_pc = "loop"
  /\ c_pc' = IF ~shutdown_event /\ retry_count < MAX_CAMERA_RETRIES
             THEN "open" ELSE "stopped"
  /\ UNCHANGED <<latest_frame, camera, retry_count, fail_streak, good_reads,
                 captured>>
  /\ UNCHANGED <<coreVars, sigVars, genVars, face_queue, callerVars,
                 resolverVars, readerVars>>

\* camera = cv2.VideoCapture(..): the device opens ("opened"), does not
\* ("not_opened": retry_count += 1, continue), the call raises ("raise": the
\* except branch, retry_count += 1, with the old camera object) or one of the
\* camera.set(..) calls raises on the opened device ("raise_opened").
CapOpen(outcome) ==
  /\ c_pc = "open"
  /\ outcome \in {"opened", "not_opened", "raise", "raise_opened"}
  /\ outcome # "opened" => fail_streak < MaxStreak
  /\ IF outcome = "opened"
     THEN /\ camera' = "opened"
          /\ retry_count' = RetryAfterOpen(retry_count)
          /\ good_reads' = 0
          /\ c_pc' = "read"
          /\ UNCHANGED fail_streak
     ELSE /\ camera' = IF outcome = "not_opened" THEN "closed"
                       ELSE IF outcome = "raise_opened" THEN "opened"
                       ELSE camera
          /\ retry_count' = retry_count + 1
          /\ fail_streak' = fail_streak + 1
          /\ c_pc' = "finally"
          /\ UNCHANGED good_reads
  /\ UNCHANGED <<latest_frame, captured>>
  /\ UNCHANGED <<coreVars, sigVars, genVars, face_queue, callerVars,
                 resolverVars, readerVars>>

\* One turn of the inner loop: it ends when the shutdown event is set;
\* otherwise camera.read() gives a frame ("ok": it is published), fails
\* ("fail": break) or raises ("raise": retry_count += 1).
CapRead(outcome) ==
  /\ c_pc = "read"
  /\ outcome \in {"ok", "fail", "raise"}
  /\ IF shutdown_event
     THEN /\ c_pc' = "finally"
          /\ UNCHANGED <<latest_frame, retry_count, fail_streak, good_reads,
                         captured>>
     ELSE IF outcome = "ok"
     THEN /\ captured < MaxFrames
          /\ captured' = captured + 1
          /\ latest_frame' = Frame(captured + 1)
          /\ fail_streak' = 0
          /\ good_reads' = Min(good_reads + 1, 1)
          /\ UNCHANGED <<c_pc, retry_count>>
     ELSE /\ fail_streak < MaxStreak
          /\ fail_streak' = fail_streak + 1
          /\ retry_count' = IF outcome = "raise" THEN retry_count + 1
                            ELSE retry_count
          /\ c_pc' = "finally"
          /\ UNCHANGED <<latest_frame, good_reads, captured>>
  /\ UNCHANGED camera
  /\ UNCHANGED <<coreVars, sigVars, genVars, face_queue, callerVars,
                 resolverVars, readerVars>>

\* Mutant of CapFinally: the finally block releases nothing.
CapFinallyNoRelease ==
  /\ c_pc = "finally"
  /\ camera' = camera
  /\ c_pc' = "loop"
  /\ UNCHANGED <<latest_frame, retry_count, fail_streak, good_reads, captured>>
  /\ UNCHANGED <<coreVars, sigVars, genVars, face_queue, callerVars,
                 resolverVars, readerVars>>

\* finally: if camera and camera.isOpened(): camera.release()
CapFinally ==
  /\ c_pc = "finally"
  /\ camera' = IF camera = "opened" THEN "closed" ELSE camera
  /\ c_pc' = "loop"
  /\ UNCHANGED <<latest_frame, retry_count, fail_streak, good_reads, captured>>
  /\ UNCHANGED <<coreVars, sigVars, genVars, face_queue, callerVars,
                 resolverVars, readerVars>>

\* ============================================================ signal_handler
\* shutdown_event.set()
SignalSet ==
  /\ h_pc = "idle"
  /\ shutdown_event' = TRUE
  /\ h_pc' = "put"
  /\ UNCHANGED <<coreVars, camVars, genVars, face_queue, callerVars,
                 resolverVars, readerVars>>

\* face_queue.put(None): a blocking put, which waits while the queue is full.
SignalPut ==
  /\ h_pc = "put"
  /\ Len(face_queue) < QueueMaxsize
  /\ face_queue' = Append(face_queue, None)
  /\ h_pc' = "done"
  /\ UNCHANGED shutdown_event
  /\ UNCHANGED <<coreVars, camVars, genVars, callerVars, resolverVars, readerVars>>

\* cleanup(), registered with atexit: shutdown_event.set() and the release
\* of an open camera, once, when the interpreter exits (the capture thread is
\* a daemon and may still be running).
Cleanup ==
  /\ h_pc \in {"idle", "done"}
  /\ h_pc' = "exited"
  /\ shutdown_event' = TRUE
  /\ camera' = IF camera = "opened" THEN "closed" ELSE camera
  /\ UNCHANGED <<latest_frame, c_pc, retry_count, fail_streak, good_reads,
                 captured>>
  /\ UNCHANGED <<coreVars, genVars, face_queue, callerVars, resolverVars,
                 readerVars>>

\* The camera alone: the capture thread, the signal handler, the exit hook and
\* /api/reconnect.
NextCamera ==
  \/ CapLoop
  \/ \E outcome \in {"opened", "not_opened", "raise", "raise_opened"} :
       CapOpen(outcome)
  \/ \E outcome \in {"ok", "fail", "raise"} : CapRead(outcome)
  \/ CapFinally
  \/ SignalSet
  \/ SignalPut
  \/ Cleanup
  \/ Reconnect

SpecCamera == Init /\ [][NextCamera]_vars

\* C7 (as claimed): the capture task never starts a further attempt once
\* MAX_CAMERA_RETRIES attempts in a row have failed, at open or at read.
C7_RecoveryBounded ==
  c_pc \in {"open", "read"} => fail_streak < MAX_CAMERA_RETRIES

\* C8 (as claimed): the retry counter goes back to 0 only after reads have
\* succeeded on the reopened device, never by the open alone.
C8_ResetOnlyAfterGoodReads ==
  [][(retry_count > 0 /\ retry_count' = 0) => good_reads' >= 1]_vars

\* C19: the device is open only while the capture task is in its read loop
\* or on its way to the finally block: it is not open once the task has
\* terminated (retries used up, or the shutdown event set), nor when the
\* task is back at the loop test or about to open the device again, so a
\* new handle is opened only after the last one was released.
C19_DeviceReleasedOnEveryExit ==
  c_pc \in {"stopped", "loop", "open"} => camera # "opened"

\* The capture task was cancelled by the shutdown event after it had opened
\* the device and read a frame; it has terminated with the device released.
C19_Witness ==
  /\ c_pc = "stopped"
  /\ shutdown_event
  /\ captured >= 1
  /\ camera = "closed"

\* C9 (as claimed): once the capture task has stopped with its retries used
\* up, the published frame is absent.
C9_AbsentAfterGivingUp ==
  (c_pc = "stopped" /\ retry_count >= MAX_CAMERA_RETRIES)
    => latest_frame = None

\* ================================== get_or_create_class_session, step by step
\* The function as concurrent invocations against the one class_sessions
\* table (several recognition devices share the storage): the existence query
\* and the insert are two storage calls, and other callers run in between.
SessSection == "S1"

nonCallerVars == <<coreVars, pipeVars, resolverVars, readerVars>>

\* if not supabase: return None; today = date.today(); the select; a row
\* found is returned, otherwise the caller goes on to the insert.
SessQuery(c, fail) ==
  /\ s_pc[c] = "idle"
  /\ fail \in BOOLEAN
  /\ LET today == Today(now)
         data == SelectSessions(class_sessions, SessSection, today)
     IN /\ s_today' = [s_today EXCEPT ![c] = today]
        /\ IF ~supabase \/ fail
           THEN /\ s_ret' = [s_ret EXCEPT ![c] = None]
                /\ s_out' = [s_out EXCEPT ![c] = "error"]
                /\ s_pc' = [s_pc EXCEPT ![c] = "done"]
           ELSE IF data # {}
           THEN /\ s_ret' = [s_ret EXCEPT ![c] = First(data).id]
                /\ s_out' = [s_out EXCEPT ![c] = "found"]
                /\ s_pc' = [s_pc EXCEPT ![c] = "done"]
           ELSE /\ s_pc' = [s_pc EXCEPT ![c] = "insert"]
                /\ UNCHANGED <<s_ret, s_out>>
  /\ UNCHANGED <<nonCallerVars>>

\* The insert of session_{section}_{today}: accepted (the id is returned),
\* or it raises, by a storage fault or because the key exists, and the
\* except branch returns None.
SessInsert(c, fail) ==
  /\ s_pc[c] = "insert"
  /\ fail \in BOOLEAN
  /\ LET row == SessionRow(SessSection, s_today[c])
     IN IF fail
        THEN /\ s_ret' = [s_ret EXCEPT ![c] = None]
             /\ s_out' = [s_out EXCEPT ![c] = "error"]
             /\ UNCHANGED class_sessions
        ELSE IF ~InsertAccepted(class_sessions, row)
        THEN /\ s_ret' = [s_ret EXCEPT ![c] = None]
             /\ s_out' = [s_out EXCEPT ![c] = "conflict"]
             /\ UNCHANGED class_sessions
        ELSE /\ class_sessions' = class_sessions \cup {row}
             /\ s_ret' = [s_ret EXCEPT ![c] = row.id]
             /\ s_out' = [s_out EXCEPT ![c] = "created"]
  /\ s_pc' = [s_pc EXCEPT ![c] = "done"]
  /\ UNCHANGED s_today
  /\ UNCHANGED <<timeVars, supabase, attendance_records,
                 student_course_attendance, cacheVars, memVars, workerVars,
                 last_call, pipeVars, resolverVars, readerVars>>

\* The caller has its result and may call again.
SessReturn(c) ==
  /\ s_pc[c] = "done"
  /\ s_pc' = [s_pc EXCEPT ![c] = "idle"]
  /\ s_ret' = [s_ret EXCEPT ![c] = None]
  /\ s_out' = [s_out EXCEPT ![c] = "-"]
  /\ UNCHANGED s_today
  /\ UNCHANGED <<nonCallerVars>>

NextSession ==
  \/ \E c \in Callers, fail \in BOOLEAN : SessQuery(c, fail)
  \/ \E c \in Callers, fail \in BOOLEAN : SessInsert(c, fail)
  \/ \E c \in Callers : SessReturn(c)
  \/ Advance

SpecSession == Init /\ [][NextSession]_vars

\* C4 (as claimed): every call that completes without a storage fault yields
\* the identifier of the one session row of its (section, day).
C4_OneSessionEveryCallYieldsIt ==
  \A c \in Callers :
    (s_pc[c] = "done" /\ s_out[c] # "error")
      => /\ s_ret[c] = SessionId(SessSection, s_today[c])
         /\ Cardinality(SelectSessions(class_sessions, SessSection,
                                       s_today[c])) = 1

\* C5 (as claimed): an insert rejected because the key was created
\* concurrently completes as if the row had been found.
C5_ConflictTreatedAsExists ==
  \A c \in Callers :
    s_out[c] = "conflict"
      => \E r \in class_sessions : s_ret[c] = r.id

\* =========================================================== generate_frames
\* Every client of /video runs its own generator in its own thread of
\* the threaded server; they share frame_counter, face_queue and the window.

\* Mutant of put_nowait: the item is appended whatever the queue holds.
PutNowaitUnbounded(q, item) == [q |-> Append(q, item), full |-> FALSE]

\* queue.Queue.put_nowait: the item is appended, or queue.Full is raised
\* (full |-> TRUE) and the queue is left as it was.
put_nowait(q, item) ==
  IF Len(q) >= QueueMaxsize THEN [q |-> q, full |-> TRUE]
  ELSE [q |-> Append(q, item), full |-> FALSE]

\* while not shutdown_event.is_set(): with frame_lock: no frame yet means
\* sleep and continue; otherwise frame = latest_frame.copy().
GenTop(s) ==
  /\ g_pc[s] = "top"
  /\ IF shutdown_event
     THEN /\ g_pc' = [g_pc EXCEPT ![s] = "exit"]
          /\ UNCHANGED g_frame
     ELSE /\ latest_frame # None
          /\ g_frame' = [g_frame EXCEPT ![s] = latest_frame]
          /\ g_pc' = [g_pc EXCEPT ![s] = "window"]
  /\ UNCHANGED <<frame_counter, is_streaming, g_window, g_tmp, g_put>>
  /\ UNCHANGED <<coreVars, camVars, sigVars, face_queue, callerVars,
                 resolverVars, readerVars>>

\* window = get_current_attendance_window(); a paused stream only yields.
GenWindow(s, fetch_fails) ==
  /\ g_pc[s] = "window"
  /\ LET r == get_current_attendance_window(now, current_attendance_window,
                                            last_window_check, supabase,
                                            fetch_fails)
     IN /\ current_attendance_window' = r.caw
        /\ last_window_check' = r.lwc
        /\ g_window' = [g_window EXCEPT ![s] = r.ret]
  /\ g_pc' = [g_pc EXCEPT ![s] = IF is_streaming THEN "load" ELSE "yield"]
  /\ UNCHANGED <<frame_counter, is_streaming, g_frame, g_tmp, g_put>>
  /\ UNCHANGED <<timeVars, supabase, storeVars, memVars, workerVars, last_call,
                 camVars, sigVars, face_queue, callerVars, resolverVars, readerVars>>

\* frame_counter += 1, first half: the global is loaded.
GenLoad(s) ==
  /\ g_pc[s] = "load"
  /\ g_tmp' = [g_tmp EXCEPT ![s] = frame_counter]
  /\ g_pc' = [g_pc EXCEPT ![s] = "store"]
  /\ UNCHANGED <<frame_counter, is_streaming, g_frame, g_window, g_put>>
  /\ UNCHANGED <<coreVars, camVars, sigVars, face_queue, callerVars,
                 resolverVars, readerVars>>

\* frame_counter += 1, second half: the sum is stored (the loaded value is
\* not used again).
GenStore(s) ==
  /\ g_pc[s] = "store"
  /\ frame_counter' = (g_tmp[s] + 1) % PROCESS_EVERY_N_FRAMES
  /\ g_tmp' = [g_tmp EXCEPT ![s] = 0]
  /\ g_pc' = [g_pc EXCEPT ![s] = "check"]
  /\ UNCHANGED <<is_streaming, g_frame, g_window, g_put>>
  /\ UNCHANGED <<coreVars, camVars, sigVars, face_queue, callerVars,
                 resolverVars, readerVars>>

\* if window and frame_counter % N == 0: if not face_queue.full(): ...
GenCheck(s) ==
  /\ g_pc[s] = "check"
  /\ IF g_window[s] # None /\ frame_counter % PROCESS_EVERY_N_FRAMES = 0
     THEN IF Len(face_queue) < QueueMaxsize
          THEN /\ g_pc' = [g_pc EXCEPT ![s] = "put"]
               /\ UNCHANGED g_put
          ELSE /\ g_pc' = [g_pc EXCEPT ![s] = "yield"]
               /\ g_put' = [g_put EXCEPT ![s] = "skipped"]
     ELSE /\ g_pc' = [g_pc EXCEPT ![s] = "yield"]
          /\ g_put' = [g_put EXCEPT ![s] = "-"]
  /\ UNCHANGED <<frame_counter, is_streaming, g_frame, g_window, g_tmp>>
  /\ UNCHANGED <<coreVars, camVars, sigVars, face_queue, callerVars,
                 resolverVars, readerVars>>

\* face_queue.put_nowait(frame.copy()) inside try / except queue.Full: pass
GenPut(s) ==
  /\ g_pc[s] = "put"
  /\ LET r == put_nowait(face_queue, g_frame[s])
     IN /\ face_queue' = r.q
        /\ g_put' = [g_put EXCEPT ![s] = IF r.full THEN "dropped"
                                         ELSE "queued"]
  /\ g_pc' = [g_pc EXCEPT ![s] = "yield"]
  /\ UNCHANGED <<frame_counter, is_streaming, g_frame, g_window, g_tmp>>
  /\ UNCHANGED <<coreVars, camVars, sigVars, callerVars, resolverVars, readerVars>>

\* The frame is drawn, encoded and yielded; the loop starts over, and the
\* locals of the finished turn are dead (each is assigned before it is read).
GenYield(s) ==
  /\ g_pc[s] = "yield"
  /\ g_pc' = [g_pc EXCEPT ![s] = "top"]
  /\ g_frame' = [g_frame EXCEPT ![s] = None]
  /\ g_window' = [g_window EXCEPT ![s] = None]
  /\ g_put' = [g_put EXCEPT ![s] = "-"]
  /\ UNCHANGED <<frame_counter, is_streaming, g_tmp>>
  /\ UNCHANGED <<coreVars, camVars, sigVars, face_queue, callerVars,
                 resolverVars, readerVars>>

\* /api/pause-stream and /api/resume-stream
PauseStream ==
  /\ is_streaming
  /\ is_streaming' = FALSE
  /\ UNCHANGED <<frame_counter, g_pc, g_frame, g_window, g_tmp, g_put>>
  /\ UNCHANGED <<coreVars, camVars, sigVars, face_queue, callerVars,
                 resolverVars, readerVars>>

ResumeStream ==
  /\ ~is_streaming
  /\ is_streaming' = TRUE
  /\ UNCHANGED <<frame_counter, g_pc, g_frame, g_window, g_tmp, g_put>>
  /\ UNCHANGED <<coreVars, camVars, sigVars, face_queue, callerVars,
                 resolverVars, readerVars>>

\* Mutant of WorkerGet: get() without a timeout, the event is seen only once
\* an item has arrived.
WorkerGetNoTimeout ==
  /\ w_pc = "get"
  /\ face_queue # <<>>
  /\ face_queue' = Tail(face_queue)
  /\ w_pc' = IF shutdown_event THEN "exit"
             ELSE IF Head(face_queue) = None THEN "get" ELSE "window"
  /\ UNCHANGED w_window
  /\ UNCHANGED <<timeVars, supabase, storeVars, cacheVars, memVars, last_call,
                 camVars, sigVars, genVars, callerVars, resolverVars, readerVars>>

\* face_recognition_worker: while not shutdown_event.is_set():
\* frame = face_queue.get(timeout=1); a None item is skipped.
WorkerGet ==
  /\ w_pc = "get"
  /\ IF shutdown_event
     THEN /\ w_pc' = "exit"
          /\ UNCHANGED face_queue
     ELSE /\ face_queue # <<>>
          /\ face_queue' = Tail(face_queue)
          /\ w_pc' = IF Head(face_queue) = None THEN "get" ELSE "window"
  /\ UNCHANGED w_window
  /\ UNCHANGED <<timeVars, supabase, storeVars, cacheVars, memVars, last_call,
                 camVars, sigVars, genVars, callerVars, resolverVars, readerVars>>

\* The pipeline on a class morning with storage configured: the camera
\* delivers frames, the generators dispatch them, the worker consumes them.
InitQueue ==
  /\ Init
  /\ now = 30000
  /\ supabase

NextQueue ==
  \/ CapLoop
  \/ CapOpen("opened")
  \/ CapRead("ok")
  \/ CapFinally
  \/ \E s \in Streams : GenTop(s)
  \/ \E s \in Streams, ff \in BOOLEAN : GenWindow(s, ff)
  \/ \E s \in Streams : GenLoad(s)
  \/ \E s \in Streams : GenStore(s)
  \/ \E s \in Streams : GenCheck(s)
  \/ \E s \in Streams : GenPut(s)
  \/ \E s \in Streams : GenYield(s)
  \/ PauseStream
  \/ ResumeStream
  \/ WorkerGet
  \/ \E ff \in BOOLEAN : WorkerWindow(ff)
  \/ WorkerDone
  \/ WorkerError
  \/ WorkerResume
  \/ SignalSet
  \/ SignalPut

SpecQueue == InitQueue /\ [][NextQueue]_vars

\* A generator's enqueue attempt completes in this step.
PutStep(s) == g_pc[s] = "put" /\ g_pc'[s] # "put"

\* C10: the queue never holds more than QueueMaxsize items; a generator at
\* its put can always take the step (it never waits for the worker); and a
\* put that meets a full queue ends at once with the queue as it was and the
\* frame dropped, also when the queue filled after the generator's full().
C10_QueueBoundedPutNeverBlocks ==
  /\ [](Len(face_queue) <= QueueMaxsize)
  /\ [](\A s \in Streams : g_pc[s] = "put" => ENABLED GenPut(s))
  /\ [][\A s \in Streams :
          (PutStep(s) /\ Len(face_queue) >= QueueMaxsize)
            => /\ face_queue' = face_queue
               /\ g_pc'[s] = "yield"
               /\ g_put'[s] = "dropped"]_vars

\* A generator passed full() with room left, another producer filled the
\* queue, and the generator's put dropped its frame.
C10_Witness ==
  \E s \in Streams :
    /\ g_pc[s] = "yield"
    /\ g_put[s] = "dropped"
    /\ Len(face_queue) = QueueMaxsize

\* ================================================== the resolver on its own
\* The body of get_current_attendance_window between the schedule query and
\* the return (lines 160-207), applied to schedule tables and minutes of the
\* day drawn from small sets.
MaxEntries == 2

\* "HH:MM:SS" and "HH:MM" strings of the table
ResolverTimes == {<<9, 0, 0>>, <<10, 30, 0>>, <<9, 20>>}

\* 08:44 08:45 08:46 09:15 09:16 09:35 10:15 10:16
ResolverMinutes == {524, 525, 526, 555, 556, 575, 615, 616}

ResolverEntries ==
  [section_id : {"S1", "S2"}, day_of_week : {"Monday", "Tuesday"},
   start_time : ResolverTimes, end_time : ResolverTimes,
   sections : {[course_id |-> "C1", name |-> "Sec"]}]

ScheduleTables ==
  UNION {[1..n -> ResolverEntries] : n \in 0..MaxEntries}

InitResolver ==
  /\ InitProgram
  /\ now = 28200
  /\ supabase
  /\ ReadersIdle
  /\ r_sched \in ScheduleTables
  /\ r_day = "Monday"
  /\ r_minutes \in ResolverMinutes
  /\ r_pc = "call"
  /\ r_out = None

\* query.data of the day, then the for loop.
ResolveCall ==
  /\ r_pc = "call"
  /\ r_out' = Resolve(SelectDay(r_sched, r_day), r_minutes)
  /\ r_pc' = "done"
  /\ UNCHANGED <<r_sched, r_day, r_minutes>>
  /\ UNCHANGED <<coreVars, pipeVars, callerVars, readerVars>>

NextResolver == ResolveCall

SpecResolver == InitResolver /\ [][NextResolver]_vars

\* start, end of a schedule row in minutes of the day, read off the string
StartOf(e) == e.start_time[1] * 60 + e.start_time[2]
EndOf(e) == e.end_time[1] * 60 + e.end_time[2]

\* start - EARLY <= now <= end - BUFFER
InRange(e, m) ==
  /\ StartOf(e) - EARLY_WINDOW_MINUTES <= m
  /\ m <= EndOf(e) - END_BUFFER_MINUTES

\* The rows of the resolver's day, as positions of r_sched.
DayRows == {i \in 1..Len(r_sched) : r_sched[i].day_of_week = r_day}
Hits == {i \in DayRows : InRange(r_sched[i], r_minutes)}

\* C11 (as claimed): for every entry of the day whose range holds the
\* minute, the window returned is of that entry's section; with no such
\* entry the result is absent.
C11_WindowForEveryEntryInRange ==
  r_pc = "done" =>
    /\ \A i \in Hits : r_out # None /\ r_out.section_id = r_sched[i].section_id
    /\ Hits = {} => r_out = None

\* C11 (amended): the window returned is that of the first entry of the day,
\* in table order, whose range start - EARLY <= now <= end - BUFFER (both
\* ends included) holds the minute; with no such entry, and so for a
\* degenerate entry at every minute, the result is absent.
C11_WindowOfFirstEntryInRange ==
  r_pc = "done" =>
    /\ Hits = {} => r_out = None
    /\ Hits # {} =>
         LET i == CHOOSE k \in Hits : \A j \in Hits : k <= j
         IN /\ r_out # None
            /\ r_out.section_id = r_sched[i].section_id
            /\ r_out.start_time = r_sched[i].start_time
            /\ r_out.end_time = r_sched[i].end_time
    /\ \A i \in DayRows :
         EndOf(r_sched[i]) - END_BUFFER_MINUTES
           < StartOf(r_sched[i]) - EARLY_WINDOW_MINUTES => i \notin Hits

\* Two entries of different sections both hold the minute; the first wins.
C11_Witness ==
  /\ r_pc = "done"
  /\ \E i, j \in Hits : i < j /\ r_sched[i].section_id # r_sched[j].section_id
  /\ r_out # None

\* C12: the status of a returned window is "late" exactly when the minute is
\* past start + LATE_GRACE of the entry returned, and "present" otherwise.
C12_LateIffPastGrace ==
  (r_pc = "done" /\ r_out # None) =>
    LET cutoff == r_out.start_time[1] * 60 + r_out.start_time[2]
                    + LATE_GRACE_MINUTES
    IN /\ r_out.status \in {"late", "present"}
       /\ r_out.status = "late" <=> r_minutes > cutoff
       /\ r_out.is_late <=> r_out.status = "late"

\* The minute start + LATE_GRACE itself (09:15 for 09:00): present.
C12_Witness ==
  /\ r_pc = "done"
  /\ r_out # None
  /\ r_minutes = r_out.start_time[1] * 60 + r_out.start_time[2]
                   + LATE_GRACE_MINUTES
  /\ r_out.status = "present"

\* The one entry of the scenario: 09:00 to 10:30 on the resolver's day.
ScenarioTable ==
  /\ Len(r_sched) = 1
  /\ r_sched[1].day_of_week = r_day
  /\ r_sched[1].start_time = <<9, 0, 0>>
  /\ r_sched[1].end_time = <<10, 30, 0>>

Absent == r_out = None
OpenWith(status) == r_out # None /\ r_out.status = status

\* C13 (as claimed): no window at 08:46, present at 08:45, late at 09:16 and
\* at 10:15, no window at 10:16.
C13_ScenarioAsWritten ==
  (r_pc = "done" /\ ScenarioTable) =>
    /\ r_minutes = 526 => Absent
    /\ r_minutes = 525 => OpenWith("present")
    /\ r_minutes = 556 => OpenWith("late")
    /\ r_minutes = 615 => OpenWith("late")
    /\ r_minutes = 616 => Absent

\* C13 (amended): no window at 08:44, present at 08:45 and at 08:46, late at
\* 09:16 and at 10:15, no window at 10:16.
C13_ScenarioOpensAt0845 ==
  (r_pc = "done" /\ ScenarioTable) =>
    /\ r_minutes = 524 => Absent
    /\ r_minutes = 525 => OpenWith("present")
    /\ r_minutes = 526 => OpenWith("present")
    /\ r_minutes = 556 => OpenWith("late")
    /\ r_minutes = 615 => OpenWith("late")
    /\ r_minutes = 616 => Absent

\* 08:46 in the scenario: the window is open.
C13_Witness ==
  /\ r_pc = "done"
  /\ ScenarioTable
  /\ r_minutes = 526
  /\ OpenWith("present")

\* ------------------------------------------------------------ not enrolled
\* The dedup membership of a dict: the (section, person) pairs it holds.
Membership(logged) ==
  {pair \in (DOMAIN logged) \X Persons : pair[2] \in logged[pair[1]]}

\* The call log_attendance(name) the worker can make in this state.
CallNow(name, fail) ==
  log_attendance(name, fail, current_attendance_window, supabase, now,
                 class_sessions, attendance_records,
                 student_course_attendance, attendance_logged_today,
                 student_cache)

\* A call that returned False and left the three tables and the dedup
\* membership as they were.
RejectedWithoutTrace(o, name) ==
  /\ o.ret = FALSE
  /\ o.sessions = class_sessions
  /\ o.records = attendance_records
  /\ o.sca = student_course_attendance
  /\ Membership(o.logged) = Membership(attendance_logged_today)
  /\ \A sec \in DOMAIN o.logged : name \notin o.logged[sec]

\* C14: in every state in which the worker can call log_attendance with a
\* window set, a call for A200 (a student with no enrollment in the window's
\* section), and a call for anyone whose student row cannot be got, returns
\* False, creates no session, no record and no absence row, and does not add
\* the person to the dedup set.
C14_NotEnrolledLeavesNoTrace ==
  (w_pc = "faces" /\ w_window # None /\ current_attendance_window # None
     /\ supabase) =>
    \A fail \in FailPoints :
      /\ RejectedWithoutTrace(CallNow("A200", fail), "A200")
      /\ \A name \in Persons :
           (/\ name \notin UNION {attendance_logged_today[sec] :
                                    sec \in DOMAIN attendance_logged_today}
            /\ get_student_cached(student_cache, name, supabase, fail).val
                 = None)
             => RejectedWithoutTrace(CallNow(name, fail), name)

\* The worker has called log_attendance("A200") in an open window (the
\* lookup of the call cached the student row) and the tables are empty.
C14_Witness ==
  /\ w_pc = "faces"
  /\ w_window # None
  /\ current_attendance_window # None
  /\ "A200" \in DOMAIN student_cache
  /\ student_cache["A200"] # None
  /\ class_sessions = {}
  /\ attendance_records = {}
  /\ student_course_attendance = {}

\* ----------------------------------------------------- failed record insert
\* log_attendance(name) with the storage fault "fail", run from what the
\* call o left behind (same clock, same window).
CallAfter(o, name, fail) ==
  log_attendance(name, fail, current_attendance_window, supabase, now,
                 o.sessions, o.records, o.sca, o.logged, o.cache)

\* The records of the person in the window's session of today.
RecordsIn(records, name, section_id) ==
  {r \in records : r.student_id = StudentIdOf(name)
                   /\ r.class_session_id = SessionId(section_id, Today(now))}

\* A call for the person would get as far as the insert of the record.
ReachesInsert(name) == CallNow(name, "none").ret

\* C15: wherever a call of log_attendance gets as far as the insert of the
\* attendance record and that insert fails, the call returns False, adds no
\* record, creates no absence row and leaves the person out of the dedup
\* set; the next call for the person in the same window, with storage
\* working, writes the record, and a further call writes nothing more, so
\* the record is there exactly once.
C15_FailedInsertCanBeRetried ==
  (w_pc = "faces" /\ w_window # None /\ current_attendance_window # None) =>
    \A name \in Persons :
      ReachesInsert(name) =>
        LET sec == current_attendance_window.section_id
            o1 == CallNow(name, "insert")
            o2 == CallAfter(o1, name, "none")
            o3 == CallAfter(o2, name, "none")
        IN /\ o1.ret = FALSE
           /\ o1.records = attendance_records
           /\ o1.sca = student_course_attendance
           /\ name \notin o1.logged[sec]
           /\ o2.ret = TRUE
           /\ Cardinality(RecordsIn(o2.records, name, sec)) = 1
           /\ o3.ret = FALSE
           /\ o3.records = o2.records

\* The state a failed insert leaves: today's session of the window exists,
\* A100 has no record in it, no absence row and no dedup mark, and the
\* worker can call again.
C15_Witness ==
  /\ w_pc = "faces"
  /\ w_window # None
  /\ current_attendance_window # None
  /\ SelectSessions(class_sessions, current_attendance_window.section_id,
                    Today(now)) # {}
  /\ RecordsIn(attendance_records, "A100",
               current_attendance_window.section_id) = {}
  /\ student_course_attendance = {}
  /\ Membership(attendance_logged_today) = {}
  /\ ReachesInsert("A100")

\* ---------------------------------------------- the window a record is of
\* C16 (as claimed): a record written while the worker processes a frame has
\* the section and the status of the window the worker got for that frame.
C16_RecordHasWorkersWindow ==
  [][LogStep =>
       \A r \in attendance_records' \ attendance_records :
         /\ r.status = w_window.status
         /\ r.class_session_id.section_id = w_window.section_id]_vars

\* ================================ get_current_attendance_window, step by step
\* The function as its callers' threads run it (the worker, every generator,
\* the status route): the interval check, the assignment of
\* last_window_check, and the schedule query with the assignment of
\* current_attendance_window are separate steps, and other callers run in
\* between.  Nothing in the function takes a lock.

\* 07:50:00 and 29, 30, 31 and 61 seconds later
CacheInstants == {28200, 28229, 28230, 28231, 28261}

\* now = time.time(); if now - last_window_check < INTERVAL: return the
\* cached value; otherwise go on to the refresh.
CacheCheck(r) ==
  /\ k_pc[r] = "idle"
  /\ k_now' = [k_now EXCEPT ![r] = now]
  /\ IF now - last_window_check < WINDOW_CHECK_INTERVAL
     THEN /\ k_ret' = [k_ret EXCEPT ![r] = current_attendance_window]
          /\ k_pc' = [k_pc EXCEPT ![r] = "done"]
     ELSE /\ k_pc' = [k_pc EXCEPT ![r] = "stamp"]
          /\ UNCHANGED k_ret
  /\ UNCHANGED k_starts
  /\ UNCHANGED <<coreVars, pipeVars, callerVars, resolverVars>>

\* last_window_check = now: a refresh starts.
CacheStamp(r) ==
  /\ k_pc[r] = "stamp"
  /\ Len(k_starts) < MaxRefreshes
  /\ last_window_check' = k_now[r]
  /\ k_starts' = Append(k_starts, k_now[r])
  /\ k_pc' = [k_pc EXCEPT ![r] = "fetch"]
  /\ UNCHANGED <<k_now, k_ret>>
  /\ UNCHANGED <<timeVars, supabase, storeVars, current_attendance_window,
                 memVars, workerVars, last_call, pipeVars, callerVars,
                 resolverVars>>

\* No client, or the schedule query and the loop over its rows: the result
\* is assigned to current_attendance_window and returned.
CacheFetch(r, fetch_fails) ==
  /\ k_pc[r] = "fetch"
  /\ LET w == IF ~supabase \/ fetch_fails THEN None
              ELSE Resolve(SelectDay(section_schedules, DayName(now)),
                           time_to_minutes(CurrentTime(now)))
     IN /\ current_attendance_window' = w
        /\ k_ret' = [k_ret EXCEPT ![r] = w]
  /\ k_pc' = [k_pc EXCEPT ![r] = "done"]
  /\ UNCHANGED <<k_now, k_starts>>
  /\ UNCHANGED <<timeVars, supabase, storeVars, last_window_check, memVars,
                 workerVars, last_call, pipeVars, callerVars, resolverVars>>

\* The caller has its value and may call again.
CacheReturn(r) ==
  /\ k_pc[r] = "done"
  /\ k_pc' = [k_pc EXCEPT ![r] = "idle"]
  /\ k_ret' = [k_ret EXCEPT ![r] = None]
  /\ UNCHANGED <<k_now, k_starts>>
  /\ UNCHANGED <<coreVars, pipeVars, callerVars, resolverVars>>

\* The clock moves on.
CacheTick ==
  /\ \E t \in CacheInstants : t > now /\ now' = t
  /\ UNCHANGED <<supabase, storeVars, cacheVars, memVars, workerVars,
                 last_call, pipeVars, callerVars, resolverVars, readerVars>>

InitCache ==
  /\ InitProgram
  /\ now = 28200
  /\ ResolverIdle
  /\ ReadersIdle

NextCache ==
  \/ \E r \in Readers : CacheCheck(r)
  \/ \E r \in Readers : CacheStamp(r)
  \/ \E r \in Readers, ff \in BOOLEAN : CacheFetch(r, ff)
  \/ \E r \in Readers : CacheReturn(r)
  \/ CacheTick

SpecCache == InitCache /\ [][NextCache]_vars

\* C17 (as claimed): two refreshes are never started less than one interval
\* apart, whatever the number of concurrent callers.
C17_RefreshesOneIntervalApart ==
  \A i, j \in 1..Len(k_starts) :
    i < j => k_starts[j] - k_starts[i] >= WINDOW_CHECK_INTERVAL

\* C18 (as claimed): no caller is served the cached window while a refresh
\* has advanced last_window_check and not yet assigned the window.
C18_NoReaderServedDuringRefresh ==
  [][\A r \in Readers :
       (k_pc[r] = "idle" /\ k_pc'[r] = "done")
         => \A q \in Readers : k_pc[q] # "fetch"]_vars

\* ------------------------------------------------- which frames are queued
\* The positions of the queue that hold frames (not the shutdown sentinel).
QueuedFrames == {i \in 1..Len(face_queue) : face_queue[i] # None}

\* C20 (as claimed): of any PROCESS_EVERY_N_FRAMES consecutive captured
\* frames at most one is enqueued, and none more than once: two frames in
\* the queue are captured frames at least PROCESS_EVERY_N_FRAMES apart.
C20_EveryKthCapturedFrameOnce ==
  \A i, j \in QueuedFrames :
    i < j =>
      \/ face_queue[j].frame - face_queue[i].frame >= PROCESS_EVERY_N_FRAMES
      \/ face_queue[i].frame - face_queue[j].frame >= PROCESS_EVERY_N_FRAMES

\* ------------------------------------------------- restart reconciliation
\* The worker can call log_attendance now, with a window and storage.
WorkerCanLog ==
  /\ w_pc = "faces"
  /\ w_window # None
  /\ current_attendance_window # None
  /\ supabase

\* The person is in no dedup set of the section.
NotInDedup(name, sec) ==
  sec \in DOMAIN attendance_logged_today => name \notin attendance_logged_today[sec]

\* C23 (as claimed): when the dedup set lacks the person and storage holds
\* the person's record in today's session of the window's section, a call
\* with storage working inserts nothing, adds the person to the section's
\* dedup set and returns False; every later call returns False whatever
\* storage does, leaving the tables and the lookup cache alone.
C23_StoredRecordMarksDedup ==
  WorkerCanLog =>
    \A name \in Persons :
      LET sec == current_attendance_window.section_id
          o1 == CallNow(name, "none")
      IN (NotInDedup(name, sec)
          /\ RecordsIn(attendance_records, name, sec) # {})
           => /\ o1.ret = FALSE
              /\ o1.records = attendance_records
              /\ name \in o1.logged[sec]
              /\ \A fail \in FailPoints :
                   LET o2 == CallAfter(o1, name, fail)
                   IN /\ o2.ret = FALSE
                      /\ o2.sessions = o1.sessions
                      /\ o2.records = o1.records
                      /\ o2.sca = o1.sca
                      /\ o2.cache = o1.cache

\* --------------------------------------------------- the absence-tracking row
\* An absence row of the person and course that something else has stored
\* and counted up (the table is shared with the rest of the system).
CountedRow(name, course_id) ==
  [id |-> 99, student_id |-> StudentIdOf(name), course_id |-> course_id,
   absence_count |-> 3]

\* The absence rows of (person, course) in a table.
AbsenceRows(sca, name, course_id) ==
  {r \in sca : r.student_id = StudentIdOf(name) /\ r.course_id = course_id}

\* C24: wherever the worker can call log_attendance, and whether or not the
\* table already holds a counted-up absence row of the person and course, a
\* call that returns True leaves exactly one absence row of (person, course
\* of the window): a row with count 0 made by the call if there was none,
\* and otherwise the row that was there, with the table unchanged.
C24_WrittenEnsuresOneAbsenceRow ==
  WorkerCanLog =>
    \A name \in Persons :
      \A extra \in {{}, {CountedRow(name, current_attendance_window.course_id)}} :
        LET course == current_attendance_window.course_id
            before == student_course_attendance \cup extra
            o == log_attendance(name, "none", current_attendance_window,
                                supabase, now, class_sessions,
                                attendance_records, before,
                                attendance_logged_today, student_cache)
        IN (o.ret /\ Cardinality(AbsenceRows(before, name, course)) <= 1)
             => /\ Cardinality(AbsenceRows(o.sca, name, course)) = 1
                /\ AbsenceRows(before, name, course) # {} => o.sca = before
                /\ AbsenceRows(before, name, course) = {}
                     => /\ before \subseteq o.sca
                        /\ \A r \in o.sca \ before :
                             /\ r.absence_count = 0
                             /\ r.student_id = StudentIdOf(name)
                             /\ r.course_id = course

\* A call has just written A100's record and the absence table holds the
\* one row of (st1, C1), with count 0.
C24_Witness ==
  /\ last_call = [matric |-> "A100", section_id |-> "S1"]
  /\ Cardinality(AbsenceRows(student_course_attendance, "A100", "C1")) = 1
  /\ \A r \in student_course_attendance : r.absence_count = 0
  /\ RecordsOf("st1", SessionId("S1", Today(now))) # {}

\* ------------------------------------------------------- dedup soundness
\* The (section, person) pairs of the dedup dict.
DedupPairs == Membership(attendance_logged_today)

\* C25 (as claimed): whoever is in the dedup set of a section has a stored
\* record in that section's session of the current day.
C25_DedupImpliesRecordToday ==
  \A pair \in DedupPairs :
    RecordsIn(attendance_records, pair[2], pair[1]) # {}

\* ------------------------------------------------------ the person lookup
\* C29 (as claimed): with a window open and storage working, a call for
\* A100 (enrolled in S1), who is in no dedup set and has no record in
\* today's session, writes the record, whatever lookups failed before.
C29_FailedLookupDoesNotBlock ==
  (WorkerCanLog /\ NotInDedup("A100", current_attendance_window.section_id)
     /\ RecordsIn(attendance_records, "A100",
                  current_attendance_window.section_id) = {})
    => CallNow("A100", "none").ret

\* ------------------------------------------- a record and its absence row
\* C30 (as claimed): no state between two calls has a person in the dedup
\* set of a section with a stored record in the section's session and no
\* absence row of (person, course of the section).
C30_RecordHasAbsenceRow ==
  w_pc = "get" =>
    \A pair \in DedupPairs :
      RecordsIn(attendance_records, pair[2], pair[1]) # {}
        => AbsenceRows(student_course_attendance, pair[2], "C1") # {}

\* ------------------------------------------------------ the signal handler
\* C28 (as claimed): the handler is never left waiting at its put with the
\* queue full and the worker out of its loop (nothing dequeues any more).
C28_HandlerPutReturns ==
  ~(h_pc = "put" /\ Len(face_queue) = QueueMaxsize /\ w_pc = "exit")

\* ========================================================= threads at run
\* The threads of the process on a class morning with A100 in view: the
\* capture thread, the /video generators, the worker and the signal handler.
\* The camera opens or does not; a cycle of the worker may raise; the
\* attendance insert may fail.  One /video client is connected.
LiveFails == {"none", "insert"}
LiveStreams == {1}

CaptureStep ==
  \/ CapLoop
  \/ \E outcome \in {"opened", "not_opened"} : CapOpen(outcome)
  \/ CapRead("ok")
  \/ CapFinally

GenStep(s) ==
  \/ GenTop(s)
  \/ \E ff \in BOOLEAN : GenWindow(s, ff)
  \/ GenLoad(s)
  \/ GenStore(s)
  \/ GenCheck(s)
  \/ GenPut(s)
  \/ GenYield(s)

NextLive ==
  \/ CaptureStep
  \/ \E s \in LiveStreams : GenStep(s)
  \/ PauseStream
  \/ ResumeStream
  \/ WorkerGet
  \/ \E ff \in BOOLEAN : WorkerWindow(ff)
  \/ \E fail \in LiveFails : WorkerLog("A100", fail)
  \/ WorkerDone
  \/ WorkerError
  \/ WorkerResume
  \/ SignalSet
  \/ SignalPut

\* threading.Thread(target=capture_frames): the thread is scheduled.
CaptureFair == WF_vars(CaptureStep)

\* threading.Thread(target=face_recognition_worker): the thread is
\* scheduled; get(timeout=1) returns, the cycle ends, the handler returns.
WorkerFair ==
  /\ WF_vars(WorkerGet)
  /\ WF_vars(\E ff \in BOOLEAN : WorkerWindow(ff))
  /\ WF_vars(WorkerDone)
  /\ WF_vars(WorkerResume)

\* A /video response is iterated by its request thread (threaded=True) as
\* long as the client reads.
GenFair == \A s \in LiveStreams : WF_vars(GenStep(s))

SpecLive == InitQueue /\ [][NextLive]_vars /\ CaptureFair /\ WorkerFair /\ GenFair

\* C21: an error raised inside a recognition cycle does not end the worker.
\* The worker is out of its loop only when shutdown was signalled; after the
\* except clause it is back at the top of the loop; a frame waiting in the
\* queue while the worker is between frames (also right after an error) is
\* dequeued unless shutdown is signalled; and a dequeued frame gets its cycle
\* (to the matcher loop or to the except clause).
C21_WorkerSurvivesCycleErrors ==
  /\ [](w_pc = "exit" => shutdown_event)
  /\ (w_pc = "caught") ~> (w_pc = "get")
  /\ (w_pc \in {"caught", "get", "faces"} /\ face_queue # <<>>)
       ~> (w_pc = "window" \/ shutdown_event)
  /\ (w_pc = "window") ~> (w_pc \in {"faces", "caught"})

\* The worker is in its except clause, frames are waiting, no shutdown.
C21_Witness ==
  /\ w_pc = "caught"
  /\ face_queue # <<>>
  /\ Head(face_queue) # None
  /\ ~shutdown_event

\* Every loop is left and the camera is not open.
AllStopped ==
  /\ c_pc = "stopped"
  /\ camera # "opened"
  /\ w_pc = "exit"
  /\ \A s \in LiveStreams : g_pc[s] = "exit"

\* C22: once shutdown_event is set, the capture thread, the worker and the
\* connected generator leave their loops and the camera is released; the
\* worker at its get can go on as soon as the event is set, with the queue
\* empty or not, and a generator at its put can always go on.
C22_ShutdownStopsEveryLoop ==
  /\ shutdown_event ~> AllStopped
  /\ []((shutdown_event /\ w_pc = "get") => ENABLED WorkerGet)
  /\ [](\A s \in LiveStreams : g_pc[s] = "put" => ENABLED GenPut(s))

\* Everything has stopped and frames were left in the queue.
C22_Witness ==
  /\ shutdown_event
  /\ AllStopped
  /\ Len(face_queue) > 1
  /\ captured > 0

\* C26 (as claimed): a generator at the top of its loop with no frame
\* published yet reaches its yield (a placeholder element) unless shutdown
\* is signalled.
C26_PullYieldsWithoutFrame ==
  \A s \in LiveStreams :
    (g_pc[s] = "top" /\ latest_frame = None /\ ~shutdown_event)
      ~> (g_pc[s] = "yield" \/ shutdown_event)

\* ------------------------------------------------- nobody watches /video
\* The same threads when no client keeps a /video response going: the
\* capture thread and the worker are scheduled, the generator runs only as
\* far as a client pulls.  A100 stays in view and storage works: a call
\* log_attendance("A100") that can write is eventually made.
PersonInView == SF_vars(WorkerLog("A100", "none"))

SpecUnattended ==
  InitQueue /\ [][NextLive]_vars /\ CaptureFair /\ WorkerFair /\ PersonInView

\* C27 (as claimed): once the camera delivers frames in S1's window, a
\* record of A100 in today's session of S1 is eventually written, unless
\* shutdown is signalled.
C27_RecordWithoutClient ==
  (latest_frame # None /\ ~shutdown_event)
    ~> (RecordsOf("st1", SessionId("S1", Today(now))) # {} \/ shutdown_event)

====
